---------------------------- MODULE Spec2Model ----------------------------
(***************************************************************************)
(* A model of simulation__random_walk_only.py: the class                   *)
(* compartment_forecast_with_GP (constructor, stochastic SIR simulation,   *)
(* control_fit with its nested numpyro model) and the module-level script. *)
(*                                                                         *)
(* Three specifications share the module:                                  *)
(*   Spec     the simulation() call on a constructed object;               *)
(*   SpecFit  the process: module-level names, __init__ with a series y,   *)
(*            control_fit() and the evaluations of its nested model;       *)
(*   SpecGP   the arithmetic of one model evaluation (kernel, blocks,      *)
(*            Cholesky conditioning) in exact rational arithmetic.         *)
(***************************************************************************)
EXTENDS Integers, Sequences, FiniteSets, TLC

(***************************************************************************)
(* Bounds of the model.                                                    *)
(***************************************************************************)
\* largest population N
MaxN == 3
\* largest value a Poisson draw takes (the support is unbounded)
MaxDraw == 3
\* largest number of points of the simulation's time grid
MaxPoints == 4
\* longest incidence series y
MaxLen == 3
\* number of retained posterior draws (num_samples in the code)
MaxSamples == 1
\* largest end time of the script's simulated framework
MaxSimEnd == 2
\* most rows of the feature matrix X in an exact model evaluation
MaxRows == 3
\* largest entry of column 0 of X in an exact model evaluation
MaxX == 2

(***************************************************************************)
(* Program constants.                                                      *)
(***************************************************************************)
\* infectious_period of the script's framework objects
InfectiousPeriod == 2
\* int(1. / dt) for the default dt = 1./7 of simulation() and control_fit()
DefaultInvDt == 7

(***************************************************************************)
(* Exact rational numbers <<n, d>>, d > 0, in lowest terms: the model's    *)
(* stand-in for the program's floating-point numbers.                      *)
(***************************************************************************)
Abs(a) == IF a < 0 THEN -a ELSE a

RECURSIVE Gcd(_, _)
Gcd(a, b) == IF b = 0 THEN a ELSE Gcd(b, a % b)

\* NaN, the value of a missing observation; arithmetic on it gives NaN
NaN == <<0, 0>>
IsNaN(p) == p[2] = 0

Rat(n, d) ==
    IF d = 0 THEN NaN
    ELSE LET s == IF d < 0 THEN -1 ELSE 1
             g == Gcd(Abs(n), Abs(d))
         IN  <<(s * n) \div g, (s * d) \div g>>

RInt(n) == <<n, 1>>

\* sums and products cancel common factors first, to keep the integers small
RAdd(p, q) ==
    IF IsNaN(p) \/ IsNaN(q) THEN NaN
    ELSE LET c == Gcd(p[2], q[2])
         IN  Rat(p[1] * (q[2] \div c) + q[1] * (p[2] \div c),
                 (p[2] \div c) * q[2])

RNeg(p) == <<-p[1], p[2]>>
RSub(p, q) == RAdd(p, RNeg(q))

RMul(p, q) ==
    IF IsNaN(p) \/ IsNaN(q) THEN NaN
    ELSE LET a == Rat(p[1], q[2])
             b == Rat(q[1], p[2])
         IN  Rat(a[1] * b[1], a[2] * b[2])

RDiv(p, q) == IF IsNaN(q) THEN NaN ELSE RMul(p, Rat(q[2], q[1]))

RZero == RInt(0)

(***************************************************************************)
(* numpy helpers used by simulation().                                     *)
(***************************************************************************)
\* a clip that forgets the upper bound
ClipLowerOnly(x, lo, hi) == IF x < lo THEN lo ELSE x

\* np.clip(x, lo, hi)
Clip(x, lo, hi) == IF x < lo THEN lo ELSE IF x > hi THEN hi ELSE x

\* np.linspace(start, stop, num): num evenly spaced points, both ends included
Linspace(start, stop, num) ==
    [k \in 1..num |->
        IF num = 1 THEN RInt(start)
        ELSE RAdd(RInt(start), Rat((k - 1) * (stop - start), num - 1))]

\* np.diff(s): the first difference of a sequence
Diff(s) == [k \in 1..(Len(s) - 1) |-> s[k + 1] - s[k]]

\* The values np.random.poisson(lam) can return: 0 when the rate is 0, any
\* natural number (up to the model's bound) when it is positive.
Poisson(lam) == IF lam[1] = 0 THEN {0} ELSE 0..MaxDraw

VARIABLES
    \* ---- the object simulation() is called on
    self_N,        \* self.N
    self_start,    \* self.start
    self_end,      \* self.end
    \* ---- simulation()
    sim_pc,        \* "idle" (not called), "running" (in the loop), "complete"
    sim_args,      \* the call's arguments [I0, repo, invdt], dt = 1/invdt
    times,         \* the local time grid
    y,             \* the local state history, a list of (S, I, R, i)
    infections,    \* the infection count drawn at each step, in order
    sim_ret,       \* the returned triple (times, i, y), once complete
    \* ---- the module namespace and the object control_fit() is called on
    g,             \* module-level names: a function from bound names to values
    self_y,        \* self.y
    self_nobs,     \* self.nobs
    self_X,        \* self.X, a sequence of rows
    self_times,    \* self.times
    self_samples,  \* self.samples
    \* ---- control_fit()
    fit_pc,        \* "start", "constructed", "mcmc", "predicted", "returned", "error"
    fit_error,     \* the exception that ended the run, "" when none
    samples,       \* the posterior draws collected by mcmc.run, one record each
    yhats,         \* preds["yhat"], one forecast per posterior draw
    fit_ret,       \* the returned triple (times, yhats, samples)
    \* ---- one evaluation of control_fit()'s nested model, in exact arithmetic
    ev_pc,         \* "none", "sites" (hyperparameters drawn), "blocks", "conditioned"
    ev_in,         \* what the evaluation reads: [X, nobs, y, rw_var, noise]
    ev             \* its locals: K, KOO, KTT, KOT, centered_y, L, alpha, mean, v, cov

simVars == <<self_N, self_start, self_end, sim_pc, sim_args, times, y,
             infections, sim_ret>>

fitVars == <<g, self_y, self_nobs, self_X, self_times, self_samples, fit_pc,
             fit_error, samples, yhats, fit_ret>>

evVars == <<ev_pc, ev_in, ev>>

vars == <<simVars, fitVars, evVars>>

None == "None"

(***************************************************************************)
(* simulation(self, I0, repo, dt)                                          *)
(***************************************************************************)
\* lines 63-64: the two Poisson rates at state (S, I), as rationals
\* dt * (beta * S * I / N) with beta = repo * gamma, gamma = 1/infectious_period
InfectionRate(S, I, N, repo, invdt) ==
    Rat(repo * S * I, invdt * InfectiousPeriod * N)

\* dt * (gamma * I)
RecoverRate(I, invdt) == Rat(I, invdt * InfectiousPeriod)

\* an initial state whose cumulative incidence starts at 0
InitialStateZeroIncidence(N, I0) == <<N - I0, I0, 0, 0>>

\* line 52: the initial state (S0, I0, R0, i0)
InitialState(N, I0) == <<N - I0, I0, 0, I0>>

\* a step that never moves the recovered into R
TransitionNoRecovered(st, infection, recover, N) ==
    <<Clip(st[1] - infection, 0, N),
      Clip(st[2] + infection - recover, 0, N),
      st[3],
      st[4] + infection>>

\* a step whose cumulative incidence follows I: i += infection - recover
TransitionNetIncidence(st, infection, recover, N) ==
    <<Clip(st[1] - infection, 0, N),
      Clip(st[2] + infection - recover, 0, N),
      Clip(st[3] + recover, 0, N),
      st[4] + infection - recover>>

\* lines 67-70: the state after one step with the given draws
Transition(st, infection, recover, N) ==
    <<Clip(st[1] - infection, 0, N),
      Clip(st[2] + infection - recover, 0, N),
      Clip(st[3] + recover, 0, N),
      st[4] + infection>>

\* line 56: the number of grid points, (end - start) * int(1. / dt)
NumPoints(start, end, invdt) == (end - start) * invdt

\* an incident series that is the cumulative column itself, without np.diff
IncidentCumulative(hist) == [k \in 1..(Len(hist) - 1) |-> hist[k + 1][4]]

\* lines 74-75: the incident series, the first difference of the i column
Incident(hist) == Diff([k \in 1..Len(hist) |-> hist[k][4]])

\* lines 47-56: the call starts; the arguments are bound, the grid is built
SimCall ==
    /\ sim_pc = "idle"
    /\ \E I0 \in 0..self_N, repo \in {0, 2}, invdt \in 1..MaxPoints :
          /\ NumPoints(self_start, self_end, invdt) <= MaxPoints
          /\ sim_args' = [I0 |-> I0, repo |-> repo, invdt |-> invdt]
          /\ y' = <<InitialState(self_N, I0)>>
          /\ times' = Linspace(self_start, self_end,
                               NumPoints(self_start, self_end, invdt))
    /\ infections' = <<>>
    /\ sim_pc' = "running"
    /\ UNCHANGED <<self_N, self_start, self_end, sim_ret>>
    /\ UNCHANGED <<fitVars, evVars>>

\* lines 58-72: one iteration of the loop over the grid
SimStep ==
    /\ sim_pc = "running"
    /\ Len(y) <= Len(times)
    /\ LET st == y[Len(y)]
       IN  \E infection \in Poisson(InfectionRate(st[1], st[2], self_N,
                                                   sim_args.repo, sim_args.invdt)),
              recover \in Poisson(RecoverRate(st[2], sim_args.invdt)) :
              /\ y' = Append(y, Transition(st, infection, recover, self_N))
              /\ infections' = Append(infections, infection)
    /\ UNCHANGED <<self_N, self_start, self_end, sim_pc, sim_args, times, sim_ret>>
    /\ UNCHANGED <<fitVars, evVars>>

\* lines 74-77: the loop is over; the incident series is computed and returned
SimReturn ==
    /\ sim_pc = "running"
    /\ Len(y) = Len(times) + 1
    /\ sim_ret' = [times |-> times, i |-> Incident(y), y |-> y]
    /\ sim_pc' = "complete"
    /\ UNCHANGED <<self_N, self_start, self_end, sim_args, times, y, infections>>
    /\ UNCHANGED <<fitVars, evVars>>

\* no fit object, nothing bound at module level, control_fit() not called
FitIdle ==
    /\ g = <<>>
    /\ self_y = None
    /\ self_nobs = None
    /\ self_X = None
    /\ self_times = None
    /\ self_samples = None
    /\ fit_pc = "start"
    /\ fit_error = ""
    /\ samples = <<>>
    /\ yhats = <<>>
    /\ fit_ret = None

\* no model evaluation is being followed
EvIdle ==
    /\ ev_pc = "none"
    /\ ev_in = None
    /\ ev = None

\* lines 22-31: an object constructed with N, start, end (no times, no y)
Init ==
    /\ FitIdle
    /\ EvIdle
    /\ self_N \in 1..MaxN
    /\ self_start = 0
    /\ self_end \in 0..MaxPoints
    /\ sim_pc = "idle"
    /\ sim_args = None
    /\ times = <<>>
    /\ y = <<>>
    /\ infections = <<>>
    /\ sim_ret = None

Next == SimCall \/ SimStep \/ SimReturn

Spec == Init /\ [][Next]_vars

(***************************************************************************)
(* Claims about simulation(), checked under Spec.                          *)
(***************************************************************************)
Entries == 1..Len(y)
SumSIR(st) == st[1] + st[2] + st[3]

\* C1: each of S, I and R lies in [0, N] in every entry of the state history,
\* the initial entry included.
C1_CompartmentsWithinPopulation ==
    \A k \in Entries : \A c \in 1..3 : y[k][c] >= 0 /\ y[k][c] <= self_N

\* C1 witness: a completed run in which a draw pushed a compartment out of
\* [0, N] (more infections drawn than susceptibles, or more recovered than fit).
C1_Witness ==
    /\ sim_pc = "complete"
    /\ \E k \in 1..Len(infections) :
          \/ y[k][1] - infections[k] < 0
          \/ y[k][2] + infections[k] > self_N

\* C2 as stated: S + I + R <= N in every entry of the state history.
C2_SumAtMostN == \A k \in Entries : SumSIR(y[k]) <= self_N

\* C2 as amended: S + I + R >= N in every entry of the state history, with
\* equality in the initial entry (independent clipping only ever adds people).
C2_SumAtLeastN ==
    /\ \A k \in Entries : SumSIR(y[k]) >= self_N
    /\ Len(y) >= 1 => SumSIR(y[1]) = self_N

\* C2 witness: a history entry whose compartments total more than N.
C2_Witness == \E k \in Entries : SumSIR(y[k]) > self_N

\* C3: the cumulative incidence i never decreases from one history entry to
\* the next, and every entry of the returned incident series is >= 0.
C3_IncidenceMonotone ==
    /\ \A k \in 1..(Len(y) - 1) : y[k + 1][4] >= y[k][4]
    /\ sim_pc = "complete" => \A k \in 1..Len(sim_ret.i) : sim_ret.i[k] >= 0

\* C3 witness: a completed run of at least two steps with recoveries drawn and
\* a strictly positive incident entry.
C3_Witness ==
    /\ sim_pc = "complete"
    /\ Len(sim_ret.i) >= 2
    /\ \E k \in 1..Len(sim_ret.i) : sim_ret.i[k] > 0
    /\ \E k \in 1..(Len(y) - 1) : y[k + 1][3] > y[k][3]

\* C4 as stated: the cumulative incidence i lies in [0, N] in every entry.
C4_IncidenceWithinPopulation ==
    \A k \in Entries : y[k][4] >= 0 /\ y[k][4] <= self_N

\* C4 as amended: the cumulative incidence i is non-negative and at least I0 in
\* every entry; it is never clipped, so N does not bound it.
C4_IncidenceAtLeastI0 ==
    \A k \in Entries : y[k][4] >= 0 /\ y[k][4] >= sim_args.I0

\* C4 witness: a history entry whose cumulative incidence exceeds N.
C4_Witness == \E k \in Entries : y[k][4] > self_N

\* C10: the history starts at (N - I0, I0, 0, I0); one transition is applied per
\* grid point and the call then completes; the returned history has
\* len(grid) + 1 entries, the incident series len(grid) entries, and incident
\* entry k is the infection count drawn at step k.
C10_OneTransitionPerGridPoint ==
    /\ sim_pc # "idle" =>
          /\ y[1] = <<self_N - sim_args.I0, sim_args.I0, 0, sim_args.I0>>
          /\ Len(times) = (self_end - self_start) * sim_args.invdt
          /\ Len(infections) = Len(y) - 1
          /\ Len(y) <= Len(times) + 1
    /\ sim_pc = "running" => ENABLED (SimStep \/ SimReturn)
    /\ sim_pc = "complete" =>
          /\ sim_ret.times = times
          /\ sim_ret.y = y
          /\ Len(sim_ret.y) = Len(times) + 1
          /\ Len(sim_ret.i) = Len(times)
          /\ \A k \in 1..Len(times) : sim_ret.i[k] = infections[k]

\* C10 witness: a completed run over a grid of at least two points whose second
\* step drew infections, so that the cumulative count differs from the incident.
C10_Witness ==
    /\ sim_pc = "complete"
    /\ Len(times) >= 2
    /\ infections[1] > 0
    /\ infections[2] > 0

(***************************************************************************)
(* The constructor, the script's simulation statement and control_fit().   *)
(***************************************************************************)
\* the observed values a series holds besides NaN
YVals == {RInt(1), RInt(2)}
\* the values an entry of the latent site fitted_resid takes
ResidVals == {RInt(-1), RInt(2)}

\* the series y a caller hands to the constructor: any mix of values and NaN
SeriesSet == UNION {[1..n -> YVals \cup {NaN}] : n \in 1..MaxLen}

\* line 188: np.arange(0, n), the script's weeks
Arange(n) == [k \in 1..n |-> k - 1]

\* lines 201-202: np.arange(1, rows + 1) as a column, stacked ncols times
FeatureMatrix(rows, ncols) == [r \in 1..rows |-> [c \in 1..ncols |-> r]]

\* np.argwhere(np.isnan(y)): the (0-based) indices of the NaN entries
NanIndices(yy) == {k - 1 : k \in {j \in DOMAIN yy : IsNaN(yy[j])}}

\* np.min of a non-empty set of indices
MinOf(S) == CHOOSE m \in S : \A x \in S : m <= x

RECURSIVE SumNonNaN(_, _)
SumNonNaN(yy, k) ==
    IF k = 0 THEN RZero
    ELSE IF IsNaN(yy[k]) THEN SumNonNaN(yy, k - 1)
    ELSE RAdd(yy[k], SumNonNaN(yy, k - 1))

\* line 126: jnp.nanmean(y), the mean of the non-NaN entries (NaN if none)
Center(yy) ==
    RDiv(SumNonNaN(yy, Len(yy)),
         RInt(Cardinality({j \in DOMAIN yy : ~IsNaN(yy[j])})))

\* line 127: (y - center)[:nobs]
CenteredY(yy, nobs) == [k \in 1..nobs |-> RSub(yy[k], Center(yy))]

\* lines 123-124, 139-144: the dimension of KTT, of the conditional mean and so
\* of the site fitted_resid: the rows of X from nobs on
NumUnobserved(XX, nobs) == Len(XX) - nobs

\* a forecast that starts with the centred observations instead of y[:nobs]
FinalResidCentered(yy, nobs, fitted_resid) ==
    CenteredY(yy, nobs) \o
    [k \in 1..Len(fitted_resid) |-> RAdd(fitted_resid[k], Center(yy))]

\* line 145: jnp.concatenate([y[:nobs], fitted_resid + center])
FinalResid(yy, nobs, fitted_resid) ==
    [k \in 1..nobs |-> yy[k]] \o
    [k \in 1..Len(fitted_resid) |-> RAdd(fitted_resid[k], Center(yy))]

\* lines 105-115: the hyperparameter sites one evaluation samples; amp and leng
\* only when X has more than one column
HyperDraws(XX) ==
    LET base == {[noise |-> RInt(1), sigma_obs |-> RInt(1), rw_var |-> RInt(2)],
                 [noise |-> RInt(2), sigma_obs |-> Rat(1, 2), rw_var |-> RInt(1)]}
    IN  IF Len(XX[1]) > 1
        THEN {h @@ [amp |-> Rat(1, 2), leng |-> RInt(1)] : h \in base}
        ELSE base

\* lines 181-185: the script simulates on a first framework and binds the
\* returned grid to the module-level name times (dt is the default 1/7)
MainSimulation ==
    /\ fit_pc = "start"
    /\ "times" \notin DOMAIN g
    /\ \E end \in 1..MaxSimEnd :
          g' = [n \in {"times"} |->
                   Linspace(0, end, NumPoints(0, end, DefaultInvDt))]
    /\ UNCHANGED <<self_y, self_nobs, self_X, self_times, self_samples, fit_pc,
                   fit_error, samples, yhats, fit_ret>>
    /\ UNCHANGED <<simVars, evVars>>

\* lines 22-41: __init__ with times, y and X; np.min of the empty array of NaN
\* indices raises ValueError after self.y was assigned and before self.X is
Construct ==
    /\ fit_pc = "start"
    /\ \E yy \in SeriesSet, ncols \in 1..2, short \in 0..1 :
          /\ Len(yy) - short >= 1
          /\ self_times' = Arange(Len(yy))
          /\ self_start' = MinOf({Arange(Len(yy))[k] : k \in 1..Len(yy)})
          /\ self_end' = Len(yy) - 1
          /\ self_y' = yy
          /\ IF NanIndices(yy) = {}
             THEN /\ fit_pc' = "error"
                  /\ fit_error' = "ValueError"
                  /\ UNCHANGED <<self_nobs, self_X>>
             ELSE /\ self_nobs' = MinOf(NanIndices(yy))
                  /\ self_X' = FeatureMatrix(Len(yy) - short, ncols)
                  /\ fit_pc' = "constructed"
                  /\ UNCHANGED fit_error
    /\ UNCHANGED <<g, self_samples, samples, yhats, fit_ret>>
    /\ UNCHANGED <<self_N, sim_pc, sim_args, times, y, infections, sim_ret>>
    /\ UNCHANGED evVars

\* lines 150-151: control_fit() builds the sampler and calls mcmc.run
FitStart ==
    /\ fit_pc = "constructed"
    /\ fit_pc' = "mcmc"
    /\ UNCHANGED <<g, self_y, self_nobs, self_X, self_times, self_samples,
                   fit_error, samples, yhats, fit_ret>>
    /\ UNCHANGED <<simVars, evVars>>

\* lines 89-147: one evaluation of the model that yields a retained draw. With
\* an empty observed block (nobs = 0) or an empty unobserved block (X has only
\* nobs rows) the library may also reject the zero-dimensional distribution.
ModelEval ==
    /\ fit_pc = "mcmc"
    /\ Len(samples) < MaxSamples
    /\ \/ /\ self_nobs = 0 \/ NumUnobserved(self_X, self_nobs) = 0
          /\ fit_pc' = "error"
          /\ fit_error' = "ModelError"
          /\ UNCHANGED samples
       \/ /\ \E hyper \in HyperDraws(self_X),
               fitted_resid \in [1..NumUnobserved(self_X, self_nobs) -> ResidVals] :
               samples' = Append(samples,
                   hyper @@ [fitted_resid |-> fitted_resid,
                             yhat |-> FinalResid(self_y, self_nobs, fitted_resid)])
          /\ UNCHANGED <<fit_pc, fit_error>>
    /\ UNCHANGED <<g, self_y, self_nobs, self_X, self_times, self_samples,
                   yhats, fit_ret>>
    /\ UNCHANGED <<simVars, evVars>>

\* lines 153-173: the samples are read back, the model is re-evaluated once per
\* draw with every sampled site fixed, and self.samples is set
FitPredictive ==
    /\ fit_pc = "mcmc"
    /\ Len(samples) = MaxSamples
    /\ yhats' = [d \in 1..Len(samples) |->
                    FinalResid(self_y, self_nobs, samples[d].fitted_resid)]
    /\ self_samples' = samples
    /\ fit_pc' = "predicted"
    /\ UNCHANGED <<g, self_y, self_nobs, self_X, self_times, fit_error, samples,
                   fit_ret>>
    /\ UNCHANGED <<simVars, evVars>>

\* line 174: return times, yhats, samples; times is no local of control_fit,
\* so it is looked up at module level and raises NameError when not bound
FitReturn ==
    /\ fit_pc = "predicted"
    /\ IF "times" \in DOMAIN g
       THEN /\ fit_ret' = [times |-> g["times"], yhats |-> yhats,
                           samples |-> samples]
            /\ fit_pc' = "returned"
            /\ UNCHANGED fit_error
       ELSE /\ fit_pc' = "error"
            /\ fit_error' = "NameError"
            /\ UNCHANGED fit_ret
    /\ UNCHANGED <<g, self_y, self_nobs, self_X, self_times, self_samples,
                   samples, yhats>>
    /\ UNCHANGED <<simVars, evVars>>

\* the process before the script's statements run: nothing constructed yet
InitFit ==
    /\ FitIdle
    /\ EvIdle
    /\ self_N = MaxN
    /\ self_start = None
    /\ self_end = None
    /\ sim_pc = "idle"
    /\ sim_args = None
    /\ times = <<>>
    /\ y = <<>>
    /\ infections = <<>>
    /\ sim_ret = None

NextFit ==
    \/ MainSimulation
    \/ Construct
    \/ FitStart
    \/ ModelEval
    \/ FitPredictive
    \/ FitReturn

SpecFit == InitFit /\ [][NextFit]_vars

(***************************************************************************)
(* Linear algebra over the rationals. A vector is a sequence, a matrix a   *)
(* sequence of rows.                                                       *)
(***************************************************************************)
Min2(a, b) == IF a <= b THEN a ELSE b

RECURSIVE DotUpTo(_, _, _)
\* the sum of a[k] * b[k] over k in 1..n
DotUpTo(a, b, n) ==
    IF n = 0 THEN RZero ELSE RAdd(DotUpTo(a, b, n - 1), RMul(a[n], b[n]))

Column(M, j) == [i \in 1..Len(M) |-> M[i][j]]
Transpose(M) == [j \in 1..Len(M[1]) |-> Column(M, j)]
MatVec(M, x) == [i \in 1..Len(M) |-> DotUpTo(M[i], x, Len(x))]
MatMul(A, B) ==
    [i \in 1..Len(A) |-> [j \in 1..Len(B[1]) |-> DotUpTo(A[i], Column(B, j), Len(B))]]
MatAdd(A, B) == [i \in 1..Len(A) |-> [j \in 1..Len(A[i]) |-> RAdd(A[i][j], B[i][j])]]
MatSub(A, B) == [i \in 1..Len(A) |-> [j \in 1..Len(A[i]) |-> RSub(A[i][j], B[i][j])]]
\* c * jnp.eye(n)
ScaledEye(c, n) == [i \in 1..n |-> [j \in 1..n |-> IF i = j THEN c ELSE RZero]]
\* M[r1:r2, c1:c2] with 1-based inclusive bounds
Slice(M, r1, r2, c1, c2) ==
    [i \in 1..(r2 - r1 + 1) |-> [j \in 1..(c2 - c1 + 1) |-> M[r1 + i - 1][c1 + j - 1]]]

\* the integer square root
ISqrt(n) == CHOOSE r \in 0..n : r * r <= n /\ (r + 1) * (r + 1) > n

\* the square root of a rational square; NaN for a negative number (as
\* jnp.linalg.cholesky gives) and for a number with no rational root
RSqrt(p) ==
    IF IsNaN(p) \/ p[1] < 0 THEN NaN
    ELSE LET a == ISqrt(p[1])
             b == ISqrt(p[2])
         IN  IF a * a = p[1] /\ b * b = p[2] THEN <<a, b>> ELSE NaN

RECURSIVE CholRow(_, _, _, _)
\* the first j entries of row i of the factor, given its rows Ls above row i
CholRow(A, Ls, i, j) ==
    IF j = 0 THEN <<>>
    ELSE LET prev == CholRow(A, Ls, i, j - 1)
         IN  IF j < i
             THEN Append(prev, RDiv(RSub(A[i][j], DotUpTo(prev, Ls[j], j - 1)),
                                    Ls[j][j]))
             ELSE Append(prev, RSqrt(RSub(A[i][i], DotUpTo(prev, prev, j - 1))))

RECURSIVE CholRows(_, _)
CholRows(A, i) ==
    IF i = 0 THEN <<>>
    ELSE LET Ls  == CholRows(A, i - 1)
             row == CholRow(A, Ls, i, i)
         IN  Append(Ls, [j \in 1..Len(A) |-> IF j <= i THEN row[j] ELSE RZero])

\* jnp.linalg.cholesky(A): the lower-triangular L with L L^T = A
cholesky(A) == CholRows(A, Len(A))

RECURSIVE ForwardSub(_, _, _)
\* the first i entries of the solution x of a x = b, a lower triangular
ForwardSub(a, b, i) ==
    IF i = 0 THEN <<>>
    ELSE LET x == ForwardSub(a, b, i - 1)
         IN  Append(x, RDiv(RSub(b[i], DotUpTo(a[i], x, i - 1)), a[i][i]))

RECURSIVE BackSub(_, _, _)
\* the entries i..n of the solution x of a x = b, a upper triangular
BackSub(a, b, i) ==
    IF i > Len(a) THEN <<>>
    ELSE LET x    == BackSub(a, b, i + 1)
             tail == [k \in 1..Len(x) |-> a[i][i + k]]
         IN  <<RDiv(RSub(b[i], DotUpTo(tail, x, Len(x))), a[i][i])>> \o x

\* jax.scipy.linalg.solve_triangular(a, b, lower) for a vector b
solve_triangular(a, b, lower) ==
    IF lower THEN ForwardSub(a, b, Len(a)) ELSE BackSub(a, b, 1)

\* jax.scipy.linalg.solve_triangular(a, B, lower) for a matrix B, by columns
solve_triangular_mat(a, B, lower) ==
    Transpose([j \in 1..Len(B[1]) |-> solve_triangular(a, Column(B, j), lower)])

(***************************************************************************)
(* The arithmetic of one model evaluation, with X of one column (the       *)
(* random-walk kernel only: K = K1).                                       *)
(***************************************************************************)
\* line 135: the jitter 1e-5 added to the diagonal before the factorisation
Jitter == Rat(1, 100000)

\* lines 100-103: variance * jnp.minimum(X, X2.T), X and X2 column vectors
random_walk_kernel(X, X2, variance) ==
    [i \in 1..Len(X) |-> [j \in 1..Len(X2) |-> RMul(variance, RInt(Min2(X[i], X2[j])))]]

\* line 122: K[:nobs, :nobs] + noise * jnp.eye(nobs)
BlockOO(K, nobs, noise) ==
    MatAdd(Slice(K, 1, nobs, 1, nobs), ScaledEye(noise, nobs))
\* line 123: K[nobs:, nobs:]
BlockTT(K, nobs) == Slice(K, nobs + 1, Len(K), nobs + 1, Len(K))
\* line 124: K[:nobs, nobs:]
BlockOT(K, nobs) == Slice(K, 1, nobs, nobs + 1, Len(K))

\* line 135: the factor of KOO + 1e-5 * jnp.eye(nobs)
Factor(KOO) == cholesky(MatAdd(KOO, ScaledEye(Jitter, Len(KOO))))

\* lines 136-137: alpha, by a lower solve with L and an upper solve with L.T
Alpha(L, centered_y) ==
    solve_triangular(Transpose(L), solve_triangular(L, centered_y, TRUE), FALSE)

\* line 139: mean = KOT.T @ alpha
ConditionalMean(KOT, alpha) == MatVec(Transpose(KOT), alpha)

\* a covariance whose diagonal carries the jitter as well
ConditionalCovJittered(KTT, v) ==
    MatAdd(MatSub(KTT, MatMul(Transpose(v), v)), ScaledEye(Jitter, Len(KTT)))

\* line 142: cov = KTT - v.T @ v
ConditionalCov(KTT, v) == MatSub(KTT, MatMul(Transpose(v), v))

\* the draws of (rw_var, noise) of the evaluations modelled: ones that make
\* the entries of KOO + 1e-5 I rational squares for some X
EvalHyper ==
    {[rw_var |-> RInt(1), noise |-> RSub(RInt(1), Jitter)],
     [rw_var |-> RInt(3), noise |-> RSub(RInt(1), Jitter)],
     [rw_var |-> Rat(12, 5), noise |-> RSub(Rat(8, 5), Jitter)]}

\* a series of n entries observed up to nobs, NaN from there on
SuffixSeries(n, nobs) ==
    {yy \in [1..n -> YVals \cup {NaN}] : \A k \in 1..n : IsNaN(yy[k]) <=> k > nobs}

\* what an evaluation reads: column 0 of X, the split point, the series, the
\* hyperparameter draws
EvalInputs ==
    UNION {UNION {
        {[X |-> XX, nobs |-> k, y |-> yy, rw_var |-> h.rw_var, noise |-> h.noise] :
            XX \in [1..n -> 0..MaxX], yy \in SuffixSeries(n, k), h \in EvalHyper}
        : k \in 1..(n - 1)} : n \in 2..MaxRows}

HasNaN(M) == \E i \in 1..Len(M) : \E j \in 1..Len(M[i]) : IsNaN(M[i][j])

\* lines 108-127: the kernel matrix over all rows of X, its three blocks and the
\* centred observations
EvalBlocks ==
    /\ ev_pc = "sites"
    /\ LET K == random_walk_kernel(ev_in.X, ev_in.X, ev_in.rw_var)
       IN  ev' = [K |-> K,
                  KOO |-> BlockOO(K, ev_in.nobs, ev_in.noise),
                  KTT |-> BlockTT(K, ev_in.nobs),
                  KOT |-> BlockOT(K, ev_in.nobs),
                  centered_y |-> CenteredY(ev_in.y, ev_in.nobs)]
    /\ ev_pc' = "blocks"
    /\ UNCHANGED <<ev_in, simVars, fitVars>>

\* lines 135-142: the Cholesky factor, alpha, the conditional mean and covariance
EvalCondition ==
    /\ ev_pc = "blocks"
    /\ LET L     == Factor(ev.KOO)
           alpha == Alpha(L, ev.centered_y)
           v     == solve_triangular_mat(L, ev.KOT, TRUE)
       IN  ev' = ev @@ [L |-> L, alpha |-> alpha,
                        mean |-> ConditionalMean(ev.KOT, alpha),
                        v |-> v, cov |-> ConditionalCov(ev.KTT, v)]
    /\ ev_pc' = "conditioned"
    /\ UNCHANGED <<ev_in, simVars, fitVars>>

\* an evaluation about to build its kernel: X, y and nobs as the constructor
\* leaves them, the hyperparameter sites drawn, and KOO + 1e-5 I with a factor
\* the rationals can hold
InitEv ==
    /\ FitIdle
    /\ self_N = MaxN
    /\ self_start = None
    /\ self_end = None
    /\ sim_pc = "idle"
    /\ sim_args = None
    /\ times = <<>>
    /\ y = <<>>
    /\ infections = <<>>
    /\ sim_ret = None
    /\ ev_pc = "sites"
    /\ ev = None
    /\ ev_in \in {in \in EvalInputs :
          ~HasNaN(Factor(BlockOO(random_walk_kernel(in.X, in.X, in.rw_var),
                                 in.nobs, in.noise)))}

NextEv == EvalBlocks \/ EvalCondition

SpecGP == InitEv /\ [][NextEv]_vars

(***************************************************************************)
(* Claims about the conditioning step, checked under SpecGP.               *)
(***************************************************************************)
IsZeroMatrix(M) == \A i \in 1..Len(M) : \A j \in 1..Len(M[i]) : M[i][j] = RZero
IsZeroVector(x) == \A i \in 1..Len(x) : x[i] = RZero

\* C9: whenever the observed/unobserved block KOT is the zero matrix, the
\* conditional mean KOT^T alpha is the zero vector and the conditional
\* covariance KTT - v^T v equals KTT.
C9_UncorrelatedBlocksLeavePrior ==
    (ev_pc = "conditioned" /\ IsZeroMatrix(ev.KOT)) =>
        /\ Len(ev.mean) = Len(ev.KTT)
        /\ IsZeroVector(ev.mean)
        /\ ev.cov = ev.KTT

\* C9 witness: a conditioned evaluation with KOT zero, observations off their
\* centre (alpha not zero) and a KTT that is not zero.
C9_Witness ==
    /\ ev_pc = "conditioned"
    /\ IsZeroMatrix(ev.KOT)
    /\ ~IsZeroVector(ev.alpha)
    /\ ~IsZeroMatrix(ev.KTT)

(***************************************************************************)
(* Claims about the constructor and control_fit(), checked under SpecFit.  *)
(***************************************************************************)
\* mcmc.run has been called (and possibly failed later)
McmcStarted ==
    \/ fit_pc \in {"mcmc", "predicted", "returned"}
    \/ fit_error \in {"ModelError", "NameError"}

\* some observed value follows a NaN: the NaN entries are no contiguous suffix
NonContiguous(yy) ==
    \E j, k \in DOMAIN yy : j < k /\ IsNaN(yy[j]) /\ ~IsNaN(yy[k])

FullyObserved(yy) == \A k \in DOMAIN yy : ~IsNaN(yy[k])
FullyUnobserved(yy) == \A k \in DOMAIN yy : IsNaN(yy[k])

\* C5: a series whose NaN entries do not form a contiguous suffix is rejected
\* before any MCMC run starts; mcmc.run is never called on it.
C5_GappedSeriesRejected ==
    (fit_pc # "start" /\ NonContiguous(self_y)) => ~McmcStarted

\* C6: a fully observed series and a fully unobserved series (nobs = 0) both
\* end in an error before MCMC sampling begins; mcmc.run is never called with
\* a split point outside 1 <= nobs < len(y).
C6_SplitPointValidated ==
    (fit_pc # "start" /\ (FullyObserved(self_y) \/ FullyUnobserved(self_y)))
        => ~McmcStarted

\* a fit the spec admits: NaN entries a contiguous suffix, at least one observed
\* point, one row of X per entry of y
ValidFit ==
    /\ fit_pc # "start"
    /\ ~FullyObserved(self_y)
    /\ ~NonContiguous(self_y)
    /\ self_nobs >= 1
    /\ Len(self_X) = Len(self_y)

\* C7: on such a fit, control_fit() returns the time grid the object was constructed with, one
\* point per forecast column, whatever ran earlier in the process, and does not
\* fail when no simulation ran first.
C7_ReturnsFittedTimeGrid ==
    ValidFit =>
    /\ fit_error # "NameError"
    /\ fit_pc = "returned" =>
          /\ fit_ret.times = [k \in 1..Len(self_times) |-> RInt(self_times[k])]
          /\ \A d \in 1..Len(fit_ret.yhats) :
                Len(fit_ret.times) = Len(fit_ret.yhats[d])

\* the forecast vector yh is the observed prefix of the series followed by the
\* latent residuals shifted by the mean of the non-NaN entries of the series
IsForecastOf(yh, fr) ==
    LET n     == self_nobs
        count == Cardinality({j \in DOMAIN self_y : ~IsNaN(self_y[j])})
    IN  /\ Len(yh) = Len(self_y)
        /\ Len(fr) = Len(self_y) - n
        /\ \A k \in 1..n : yh[k] = self_y[k] /\ ~IsNaN(yh[k])
        /\ \A k \in 1..(Len(self_y) - n) :
              RMul(RSub(yh[n + k], fr[k]), RInt(count))
                  = SumNonNaN(self_y, Len(self_y))

=============================================================================
